---------------------------- MODULE Spec2Model ----------------------------
(***************************************************************************)
(* A model of githubpullrequests (source/githubpullrequests/__init__.py):  *)
(* the batch executor PullRequester.parse_gitmodules, its session file     *)
(* (last_session.json) and the process-wide flag g_is_already_running.     *)
(*                                                                         *)
(* Several invocations of main() run in one process and interleave at the  *)
(* granularity of the steps below.  One loop iteration is one step: apart  *)
(* from its read of g_is_already_running it touches only the invocation's  *)
(* own object and the remote API.                                          *)
(*                                                                         *)
(* Strings are sequences of tokens, and `in` (substring) is containment of *)
(* a contiguous run of tokens.                                             *)
(*                                                                         *)
(* A behaviour has three invocations of main(), each a batch run or a      *)
(* cancel, all given the same command line; file A holds two sections and  *)
(* file B one; the remote API and the loader fail at most MaxFaults times. *)
(* The PullRequester of an invocation is discarded when main() is left.    *)
(* A behaviour starts without a session file or with one json.load rejects.*)
(*                                                                         *)
(* Two more specifications share the variables.  SpecStore is the session  *)
(* file over runs that record one after the other, up to and beyond the    *)
(* MAXIMUM_WORSPACES_ENTRIES files it keeps.  SpecBatcher is the bulk      *)
(* action of main (run_action_on_all_repositories): the page queries and   *)
(* the mutation requests posted through run_graphql_query, on an account   *)
(* of up to MaxRepositories repositories listed in pages of `items`.       *)
(***************************************************************************)
EXTENDS Integers, Sequences, FiniteSets, TLC

\* ------------------------------------------------------------------ bounds

\* --maximum-repositories ranges over 0..MaxCap (0: no cap)
MaxCap == 1
\* remote calls that fail, and worklist files that fail to load, in one behaviour
MaxFaults == 1
\* the runs that record in the session file, one after the other
MaxRecords == 2
\* the repositories of the account a bulk action runs on: 0..MaxRepositories
MaxRepositories == 237
\* the tokens of a `branches` option, and of a `url` or `upstream` option
MaxBranches == 5
MaxUrl == 7

\* --------------------------------------------------------------- constants

MAXIMUM_WORSPACES_ENTRIES == 100

\* queryvariables["items"], the size of a page
items == 100

\* the invocations of main() of a behaviour, in the order they start
Invocations == {1, 2, 3}

\* the gitmodules files on disk, and the -f lists a behaviour may be run with
Files == {"A", "B"}
WorkLists == {<<"A">>, <<"A", "B">>}

\* self.last_module_file before the loader ran
None == "None"

\* queryvariables["lastItem"] = None: no cursor, the listing starts at its
\* first repository; the cursor the remote gives with a page is the place in
\* the listing of the last repository of the page
NoCursor == 0

\* ------------------------------------------------------- strings as tokens

\* a in b, for two strings
Contains(a, b) ==
    \E k \in 0..(Len(b) - Len(a)) : SubSeq(b, k + 1, k + Len(a)) = a

\* ------------------------------------------------------ the configuration

\* The sections of each file: section k of file f names the fork
\* DownstreamNames[f][k]; the even sections carry no upstream URL.  A section
\* name is free text: the one of file B says what became of its fork.
SectionNames ==
    [f \in Files |-> IF f = "A" THEN <<"a1", "a2">> ELSE <<"Repository was archived">>]
DownstreamNames ==
    [f \in Files |-> IF f = "A" THEN <<"u/ra1", "u/ra2">> ELSE <<"u/rb1">>]
HasUpstream(f, k) == k % 2 = 1

\* "{} -> {}".format( downstream_name, section )
full_downstream_name(f, k) == <<DownstreamNames[f][k], "->", SectionNames[f][k]>>

\* str( error ) of the github.GithubException a remote call may raise
Messages == { <<"422", "No commits between">>, <<"502", "Server Error">> }

skip_reasons ==
    << <<"No commits between">>, <<"A pull request already exists">>,
       <<"Repository was archived">>, <<"has no history in common">> >>

UnknownReason == "Unknown Reason"
SuccessfullyCreated == "Successfully Created"
Categories ==
    {skip_reasons[r][1] : r \in 1..Len(skip_reasons)} \cup {UnknownReason, SuccessfullyCreated}

\* init_report: every category starts empty
init_report == [c \in Categories |-> <<>>]

\* ------------------------------------------------------------ OrderedDict

\* An OrderedDict is a sequence of entries [file, index], first key first.
Keys(d) == {d[k].file : k \in 1..Len(d)}

\* d.get( key, default )
Get(d, key, default) ==
    IF key \in Keys(d)
    THEN (CHOOSE e \in {d[k] : k \in 1..Len(d)} : e.file = key).index
    ELSE default

\* d[key] = index: an existing key keeps its place, a new one goes last
SetItem(d, key, index) ==
    IF key \in Keys(d)
    THEN [k \in 1..Len(d) |-> IF d[k].file = key THEN [file |-> key, index |-> index] ELSE d[k]]
    ELSE Append(d, [file |-> key, index |-> index])

move_to_dict_beginning(d, key) ==
    <<[file |-> key, index |-> Get(d, key, 0)]>> \o SelectSeq(d, LAMBDA e : e.file # key)

\* popping at the other end of the dictionary
pop_dict_first_item(d) == SubSeq(d, 2, Len(d))

pop_dict_last_item(d) == SubSeq(d, 1, Len(d) - 1)

RECURSIVE TruncateEntries(_)
\* while len( self.lastSection ) > MAXIMUM_WORSPACES_ENTRIES: pop_dict_last_item
TruncateEntries(d) ==
    IF Len(d) > MAXIMUM_WORSPACES_ENTRIES THEN TruncateEntries(pop_dict_last_item(d)) ELSE d

\* the dictionary _save_data leaves in self.lastSection and writes to the file
SavedSection(d, file, index) ==
    TruncateEntries(move_to_dict_beginning(SetItem(d, file, index), file))

\* ------------------------------------------------------------- the worklist

RECURSIVE get_sections(_, _)
\* get_sections: the sections of the files of the list, in file order
get_sections(files, sizes) ==
    IF files = <<>> THEN <<>>
    ELSE [k \in 1..sizes[Head(files)] |-> [file |-> Head(files), section |-> k]]
         \o get_sections(Tail(files), sizes)

\* ----------------------------------------------------------- classification

\* "%s, %s" % ( full_downstream_name, str( error ) )
ErrorText(name, message) == name \o <<",">> \o message

\* the reasons found in the error text, by their place in skip_reasons
MatchingReasons(error) == {r \in 1..Len(skip_reasons) : Contains(skip_reasons[r], error)}

\* _register_error_reason filing the repository name in every category
register_error_reason_name(results, name, message) ==
    LET error == ErrorText(name, message)
        found == MatchingReasons(error)
    IN  IF found # {}
        THEN LET first == CHOOSE r \in found : \A q \in found : r <= q
                 reason == skip_reasons[first][1]
             IN  [results EXCEPT ![reason] = Append(@, name)]
        ELSE [results EXCEPT ![UnknownReason] = Append(@, name)]

\* _register_error_reason: the first reason in the error text takes the
\* repository name, and no reason at all files the whole text as unknown
register_error_reason(results, name, message) ==
    LET error == ErrorText(name, message)
        found == MatchingReasons(error)
    IN  IF found # {}
        THEN LET first == CHOOSE r \in found : \A q \in found : r <= q
                 reason == skip_reasons[first][1]
             IN  [results EXCEPT ![reason] = Append(@, name)]
        ELSE [results EXCEPT ![UnknownReason] = Append(@, error)]

\* -------------------------------------------------------------------- state

VARIABLES
    \* the command line, the same for every invocation of a behaviour
    gitmodules_file,        \* -f: the list of files
    maximum_repositories,   \* -mr
    is_dry_run,             \* -d
    synced_repositories,    \* -s
    \* the disk
    sections,               \* the number of sections of each gitmodules file
    session_file,           \* the content of CHANNEL_SESSION_FILE
    session_corrupt,        \* the file is there and json.load cannot parse it
    \* the process
    g_is_already_running,
    \* each invocation of main()
    pc,
    cancel_operation,       \* -c
    is_allowed,             \* what lock_context_manager yielded
    raising,                \* an exception is propagating out of parse_gitmodules
    lastSection,
    last_module_file,
    request_index,
    start_index,
    repositories_results,
    skipped_repositories,
    \* what the run cannot see
    remote_calls,           \* the calls each invocation made: <<item, call, result>>
    releases,               \* the calls of free_mutex_lock each invocation made
    writer,                 \* the sections completed by the run whose exception
                            \* wrote session_file last; -1 when no run or a
                            \* completed run wrote it last
    read_from,              \* the writer of the session file each invocation loaded
    faults,                 \* the failures injected so far
    \* the checkpoint store over many runs
    recency,                \* the files recorded so far, the last recorded first
    recorded,               \* the runs that recorded since the behaviour began
    \* the repository batcher
    account,                \* the listing the remote serves: [size, archived]
    batch_pc,
    queryvariables,         \* [lastItem, hasNextPage]
    repositories,           \* what get_all_user_repositories returned last
    requests,               \* the GraphQL requests posted so far
    \* the parsers of the options of a section
    option,                 \* [key, value]: an option of a section of a file
    parsed                  \* what its parser returned, <<>> before it ran

args == <<gitmodules_file, maximum_repositories, is_dry_run, synced_repositories, sections>>
self == <<lastSection, last_module_file, request_index, start_index,
          repositories_results, skipped_repositories>>
store == <<recency, recorded>>
batcher == <<account, batch_pc, queryvariables, repositories, requests>>
parsers == <<option, parsed>>
aux == <<store, batcher, parsers>>
executor == <<args, session_file, session_corrupt, g_is_already_running, pc,
              cancel_operation, is_allowed, raising, self, remote_calls, releases,
              writer, read_from, faults>>
vars == <<args, session_file, session_corrupt, g_is_already_running, pc,
          cancel_operation, is_allowed, raising, self, remote_calls, releases, writer,
          read_from, faults, aux>>

\* the worklist of the behaviour, and its length
Worklist == get_sections(gitmodules_file, sections)
sections_count == Len(Worklist)

\* the place of item idx within its own file
IndexInFile(idx) ==
    Cardinality({k \in 1..idx : Worklist[k].file = Worklist[idx].file})

\* no invocation of main() has started
NotStarted ==
    /\ g_is_already_running = FALSE
    /\ pc = [i \in Invocations |-> "idle"]
    /\ cancel_operation = [i \in Invocations |-> FALSE]
    /\ is_allowed = [i \in Invocations |-> FALSE]
    /\ raising = [i \in Invocations |-> FALSE]
    /\ lastSection = [i \in Invocations |-> <<>>]
    /\ last_module_file = [i \in Invocations |-> None]
    /\ request_index = [i \in Invocations |-> 0]
    /\ start_index = [i \in Invocations |-> 0]
    /\ repositories_results = [i \in Invocations |-> init_report]
    /\ skipped_repositories = [i \in Invocations |-> <<>>]
    /\ remote_calls = [i \in Invocations |-> {}]
    /\ releases = [i \in Invocations |-> 0]
    /\ writer = -1
    /\ read_from = [i \in Invocations |-> -1]
    /\ faults = 0

\* no record was made in the checkpoint store
StoreUnused ==
    /\ recency = <<>>
    /\ recorded = 0

\* main() was not asked for a bulk action
BatcherUnused ==
    /\ account = [size |-> 0, archived |-> 0]
    /\ batch_pc = "idle"
    /\ queryvariables = [lastItem |-> NoCursor, hasNextPage |-> FALSE]
    /\ repositories = <<>>
    /\ requests = <<>>

\* no option of a section was read
ParsersUnused ==
    /\ option = [key |-> "", value |-> <<>>]
    /\ parsed = <<>>

\* The session file a behaviour starts with: none, or one cut short while it
\* was written, which json.load rejects.
TruncatedSession == <<[file |-> "A", index |-> 1]>>

Init ==
    /\ gitmodules_file \in WorkLists
    /\ maximum_repositories \in 0..MaxCap
    /\ is_dry_run \in BOOLEAN
    /\ synced_repositories \in BOOLEAN
    /\ sections = [f \in Files |-> Len(SectionNames[f])]
    /\ session_corrupt \in BOOLEAN
    /\ session_file = IF session_corrupt THEN TruncatedSession ELSE <<>>
    /\ NotStarted
    /\ StoreUnused
    /\ BatcherUnused
    /\ ParsersUnused

\* ---------------------------------------------------------------- the lock

\* free_mutex_lock without its `global` statement: the assignment is to a local
free_mutex_lock_local == UNCHANGED g_is_already_running

free_mutex_lock == g_is_already_running' = FALSE

\* a call of free_mutex_lock by invocation i
Release(i) ==
    /\ free_mutex_lock
    /\ releases' = [releases EXCEPT ![i] = @ + 1]

\* is_allowed_to_run: what it returns
is_allowed_to_run == ~g_is_already_running

\* ------------------------------------------------------- the session file

\* _save_data( index ) without its first line, the test of self.last_module_file
save_data_always(i, index) ==
    LET saved == SavedSection(lastSection[i], last_module_file[i], index)
    IN  /\ lastSection' = [lastSection EXCEPT ![i] = saved]
        /\ session_file' = saved
        /\ session_corrupt' = FALSE
        /\ writer' = IF pc[i] = "except" THEN request_index[i] - 1 ELSE -1

\* _save_data( index ) by invocation i: nothing without a current file
save_data(i, index) ==
    IF last_module_file[i] \in {None, ""}
    THEN UNCHANGED <<lastSection, session_file, session_corrupt, writer>>
    ELSE LET saved == SavedSection(lastSection[i], last_module_file[i], index)
         IN  /\ lastSection' = [lastSection EXCEPT ![i] = saved]
             /\ session_file' = saved
             /\ session_corrupt' = FALSE
             /\ writer' = IF pc[i] = "except" THEN request_index[i] - 1 ELSE -1

\* the index of the section the exception was raised at, saved as it is
ExceptIndex_reached(i) == request_index[i]

\* the index parse_gitmodules saves when an exception leaves the loop
ExceptIndex(i) == request_index[i] - 1

\* ------------------------------------------------------ one item of the loop

\* What the remote API does for one item: nothing fails, or the call of one
\* stage raises, a github.GithubException with a message or another exception.
NoFault == [stage |-> "none", kind |-> "ok", message |-> <<>>]

\* the stages of an item when --dry-run is not looked at
Stages_mutating(f, k) ==
    {"resolve"} \cup (IF HasUpstream(f, k) THEN {"create", "label"} ELSE {})

\* the stages whose remote call the item reaches when nothing has failed
Stages(f, k) ==
    {"resolve"} \cup (IF HasUpstream(f, k) /\ ~is_dry_run THEN {"create", "label"} ELSE {})

Outcomes(f, k) ==
    {NoFault}
    \cup (IF faults < MaxFaults
          THEN {[stage |-> s, kind |-> "github", message |-> m] :
                    s \in Stages(f, k), m \in Messages}
               \cup {[stage |-> s, kind |-> "other", message |-> <<>>] : s \in Stages(f, k)}
          ELSE {})

\* how the call of a stage ended: "ok", "github" or "other"
Result(stage, out) == IF out.stage = stage THEN out.kind ELSE "ok"

\* str( error ) of the exception the call of a stage raised
Raised(stage, out) == IF out.stage = stage THEN out.message ELSE <<>>

\* the remote calls made for item idx, each with how it ended
CallsMade(idx, f, k, out) ==
    {<<idx, "get_repo", Result("resolve", out), Raised("resolve", out)>>}
    \cup (IF "create" \in Stages(f, k) /\ out.stage # "resolve"
          THEN {<<idx, "create_pull", Result("create", out), Raised("create", out)>>}
          ELSE {})
    \cup (IF "label" \in Stages(f, k) /\ out.stage \notin {"resolve", "create"}
          THEN {<<idx, "add_to_labels", Result("label", out), Raised("label", out)>>}
          ELSE {})

\* the first try block failed: get_user, get_repo
ResolveFailed(out) == out.stage = "resolve"

\* self.repositories_results after the item
ItemResults(results, f, k, out) ==
    LET name == full_downstream_name(f, k)
        created == [results EXCEPT ![SuccessfullyCreated] = Append(@, name)]
    IN  IF ResolveFailed(out)
        THEN IF out.kind = "github" THEN register_error_reason(results, name, out.message)
             ELSE results
        ELSE IF ~HasUpstream(f, k) THEN results
        ELSE IF is_dry_run THEN created
        ELSE IF out.stage = "create"
        THEN IF out.kind = "github" THEN register_error_reason(results, name, out.message)
             ELSE results
        ELSE IF out.stage = "label" /\ out.kind = "github"
        THEN register_error_reason(created, name, out.message)
        ELSE created

\* self.skipped_repositories after the item
ItemSkipped(skipped, f, k, out) ==
    IF ~ResolveFailed(out) /\ ~HasUpstream(f, k)
    THEN Append(skipped, full_downstream_name(f, k))
    ELSE skipped

\* only a github.GithubException is caught by the two try blocks
Escapes(out) == out.kind = "other"

\* ------------------------------------------------------------------ main()

\* invocations start in the order of their numbers
MayStart(i) == pc[i] = "idle" /\ (IF i = 1 THEN TRUE ELSE pc[i - 1] # "idle")

\* main -c: free_mutex_lock() and return
Cancel(i) ==
    /\ MayStart(i)
    /\ cancel_operation' = [cancel_operation EXCEPT ![i] = TRUE]
    /\ Release(i)
    /\ pc' = [pc EXCEPT ![i] = "returned"]
    /\ UNCHANGED <<aux, args, session_file, session_corrupt, is_allowed, raising, self, remote_calls,
                   writer, read_from, faults>>

\* PullRequester.__init__ with -s taken for unset
LoadSession_persisted == IF session_corrupt THEN <<>> ELSE session_file

\* PullRequester.__init__: self.lastSection; an IOError or a ValueError of
\* open and json.load leaves it empty
LoadSession ==
    IF synced_repositories THEN <<>>
    ELSE IF session_corrupt THEN <<>>
    ELSE session_file

\* main -f: PullRequester.__init__ loads the session file, unless -s
Construct(i) ==
    /\ MayStart(i)
    /\ lastSection' = [lastSection EXCEPT ![i] = LoadSession]
    /\ read_from' = [read_from EXCEPT
                        ![i] = IF synced_repositories \/ session_corrupt
                               THEN -1 ELSE writer]
    /\ pc' = [pc EXCEPT ![i] = "acquire"]
    /\ UNCHANGED <<aux, args, session_file, session_corrupt, g_is_already_running, cancel_operation,
                   is_allowed, raising, last_module_file, request_index, start_index,
                   repositories_results, skipped_repositories, remote_calls, releases,
                   writer, faults>>

\* ------------------------------------------------------- parse_gitmodules

\* with lock_context_manager() as is_allowed: if not is_allowed: return
Declined(i) ==
    /\ pc[i] = "acquire"
    /\ ~is_allowed_to_run
    /\ is_allowed' = [is_allowed EXCEPT ![i] = FALSE]
    /\ pc' = [pc EXCEPT ![i] = "finally"]
    /\ UNCHANGED <<aux, args, session_file, session_corrupt, g_is_already_running, cancel_operation, raising,
                   self, remote_calls, releases, writer, read_from, faults>>

\* is_allowed_to_run() sets the flag; then _parse_gitmodules, up to its loop,
\* reads and parses every file of the list
Acquire(i) ==
    /\ pc[i] = "acquire"
    /\ is_allowed_to_run
    /\ g_is_already_running' = TRUE
    /\ is_allowed' = [is_allowed EXCEPT ![i] = TRUE]
    /\ request_index' = [request_index EXCEPT ![i] = 0]
    /\ start_index' = [start_index EXCEPT ![i] = 0]
    /\ last_module_file' = [last_module_file EXCEPT ![i] = ""]
    /\ pc' = [pc EXCEPT ![i] = "loop"]
    /\ UNCHANGED <<aux, args, session_file, session_corrupt, cancel_operation, raising, lastSection,
                   repositories_results, skipped_repositories, remote_calls, releases,
                   writer, read_from, faults>>

\* the same, when a file of the list cannot be opened or parsed: open() or
\* _read() raises before self.last_module_file is set
AcquireLoadFails(i) ==
    /\ pc[i] = "acquire"
    /\ is_allowed_to_run
    /\ faults < MaxFaults
    /\ faults' = faults + 1
    /\ g_is_already_running' = TRUE
    /\ is_allowed' = [is_allowed EXCEPT ![i] = TRUE]
    /\ pc' = [pc EXCEPT ![i] = "except"]
    /\ UNCHANGED <<aux, args, session_file, session_corrupt, cancel_operation, raising, self, remote_calls,
                   releases, writer, read_from>>

\* the head of an iteration: the next section, and the file it belongs to
NextIndex(i) == request_index[i] + 1
Item(i) == Worklist[NextIndex(i)]
StartIndex(i) ==
    IF last_module_file[i] # Item(i).file
    THEN Get(lastSection[i], Item(i).file, 0)
    ELSE start_index[i]
Advance(i) ==
    /\ pc[i] = "loop"
    /\ request_index' = [request_index EXCEPT ![i] = NextIndex(i)]
    /\ last_module_file' = [last_module_file EXCEPT ![i] = Item(i).file]
\* where the loop stands after an iteration that went on to the next section
AfterItem(i) == IF NextIndex(i) = sections_count THEN "save0" ELSE "loop"

\* the loop without its test of the flag
reloaded_unseen == FALSE

\* if not g_is_already_running: the module was reloaded, or another
\* invocation called free_mutex_lock
reloaded == ~g_is_already_running

\* if not g_is_already_running: raise ImportError
Interrupted(i) ==
    /\ Advance(i)
    /\ reloaded
    /\ start_index' = [start_index EXCEPT ![i] = StartIndex(i)]
    /\ pc' = [pc EXCEPT ![i] = "except"]
    /\ UNCHANGED <<aux, args, session_file, session_corrupt, g_is_already_running, cancel_operation,
                   is_allowed, raising, lastSection, repositories_results,
                   skipped_repositories, remote_calls, releases, writer, read_from,
                   faults>>

\* if start_index > 0: start_index -= 1; continue
SkipItem(i) ==
    /\ Advance(i)
    /\ ~reloaded
    /\ StartIndex(i) > 0
    /\ start_index' = [start_index EXCEPT ![i] = StartIndex(i) - 1]
    /\ pc' = [pc EXCEPT ![i] = AfterItem(i)]
    /\ UNCHANGED <<aux, args, session_file, session_corrupt, g_is_already_running, cancel_operation,
                   is_allowed, raising, lastSection, repositories_results,
                   skipped_repositories, remote_calls, releases, writer, read_from,
                   faults>>

\* if self.maximum_repositories and self.request_index > self.maximum_repositories
CapReached(i) == maximum_repositories # 0 /\ NextIndex(i) > maximum_repositories

Break(i) ==
    /\ Advance(i)
    /\ ~reloaded
    /\ StartIndex(i) = 0
    /\ CapReached(i)
    /\ start_index' = [start_index EXCEPT ![i] = 0]
    /\ pc' = [pc EXCEPT ![i] = "save0"]
    /\ UNCHANGED <<aux, args, session_file, session_corrupt, g_is_already_running, cancel_operation,
                   is_allowed, raising, lastSection, repositories_results,
                   skipped_repositories, remote_calls, releases, writer, read_from,
                   faults>>

\* the rest of the loop body, for a section that is neither skipped nor past the cap
ProcessItem(i) ==
    /\ Advance(i)
    /\ ~reloaded
    /\ StartIndex(i) = 0
    /\ ~CapReached(i)
    /\ \E out \in Outcomes(Item(i).file, Item(i).section) :
        /\ remote_calls' = [remote_calls EXCEPT
               ![i] = @ \cup CallsMade(NextIndex(i), Item(i).file, Item(i).section, out)]
        /\ repositories_results' = [repositories_results EXCEPT
               ![i] = ItemResults(@, Item(i).file, Item(i).section, out)]
        /\ skipped_repositories' = [skipped_repositories EXCEPT
               ![i] = ItemSkipped(@, Item(i).file, Item(i).section, out)]
        /\ faults' = IF out = NoFault THEN faults ELSE faults + 1
        /\ pc' = [pc EXCEPT ![i] = IF Escapes(out) THEN "except" ELSE AfterItem(i)]
    /\ start_index' = [start_index EXCEPT ![i] = 0]
    /\ UNCHANGED <<aux, args, session_file, session_corrupt, g_is_already_running, cancel_operation,
                   is_allowed, raising, lastSection, releases, writer, read_from>>

\* except: self._save_data( self.request_index - 1 ); raise
Except(i) ==
    /\ pc[i] = "except"
    /\ save_data(i, ExceptIndex(i))
    /\ raising' = [raising EXCEPT ![i] = TRUE]
    /\ pc' = [pc EXCEPT ![i] = "finally"]
    /\ UNCHANGED <<aux, args, g_is_already_running, cancel_operation, is_allowed,
                   last_module_file, request_index, start_index, repositories_results,
                   skipped_repositories, remote_calls, releases, read_from, faults>>

\* the loop ended or broke: self._save_data( 0 )
SaveNormal(i) ==
    /\ pc[i] = "save0"
    /\ save_data(i, 0)
    /\ pc' = [pc EXCEPT ![i] = "finally"]
    /\ UNCHANGED <<aux, args, g_is_already_running, cancel_operation, is_allowed, raising,
                   last_module_file, request_index, start_index, repositories_results,
                   skipped_repositories, remote_calls, releases, read_from, faults>>

\* main() returned or raised: its PullRequester is garbage
Discard(i) ==
    /\ lastSection' = [lastSection EXCEPT ![i] = <<>>]
    /\ last_module_file' = [last_module_file EXCEPT ![i] = None]
    /\ request_index' = [request_index EXCEPT ![i] = 0]
    /\ start_index' = [start_index EXCEPT ![i] = 0]
    /\ repositories_results' = [repositories_results EXCEPT ![i] = init_report]
    /\ skipped_repositories' = [skipped_repositories EXCEPT ![i] = <<>>]
    /\ remote_calls' = [remote_calls EXCEPT ![i] = {}]
    /\ read_from' = [read_from EXCEPT ![i] = -1]

\* lock_context_manager's finally, on leaving the with block by return (not
\* allowed) or by the exception: main() is left
FinallyLeaving(i) ==
    /\ pc[i] = "finally"
    /\ raising[i] \/ ~is_allowed[i]
    /\ Release(i)
    /\ pc' = [pc EXCEPT ![i] = IF raising[i] THEN "raised" ELSE "returned"]
    /\ Discard(i)
    /\ UNCHANGED <<aux, args, session_file, session_corrupt, cancel_operation, is_allowed, raising, writer,
                   faults>>

\* lock_context_manager's finally, at the end of the with block
Finally(i) ==
    /\ pc[i] = "finally"
    /\ ~raising[i] /\ is_allowed[i]
    /\ Release(i)
    /\ pc' = [pc EXCEPT ![i] = "after_with"]
    /\ UNCHANGED <<aux, args, session_file, session_corrupt, cancel_operation, is_allowed, raising, self,
                   remote_calls, writer, read_from, faults>>

\* the free_mutex_lock() after the with block; main() publishes the report and returns
AfterWith(i) ==
    /\ pc[i] = "after_with"
    /\ Release(i)
    /\ pc' = [pc EXCEPT ![i] = "returned"]
    /\ Discard(i)
    /\ UNCHANGED <<aux, args, session_file, session_corrupt, cancel_operation, is_allowed, raising, writer,
                   faults>>

Next ==
    \E i \in Invocations :
        \/ Cancel(i)
        \/ Construct(i)
        \/ Declined(i)
        \/ Acquire(i)
        \/ AcquireLoadFails(i)
        \/ Interrupted(i)
        \/ SkipItem(i)
        \/ Break(i)
        \/ ProcessItem(i)
        \/ Except(i)
        \/ SaveNormal(i)
        \/ FinallyLeaving(i)
        \/ Finally(i)
        \/ AfterWith(i)

Spec == Init /\ [][Next]_vars

\* ------------------------------------------------- the session file in use

\* The session file over many runs of main -f, one run at a time, each on a
\* file of its own: the files are numbered in the order they were first run
\* on.  A behaviour starts when n runs, each on a new file, have completed.
SessionAfter(n) == [k \in 1..n |-> [file |-> n + 1 - k, index |-> 0]]

\* the files a run may be about: a new one, the last one recorded, the one
\* recorded longest ago of all and of those in the session file, one in between
FilesToRecord ==
    {Len(recency) + 1}
    \cup (IF recency = <<>> THEN {}
          ELSE {recency[1], recency[Len(recency)], recency[(Len(recency) + 1) \div 2]})
    \cup (IF session_file = <<>> THEN {} ELSE {session_file[Len(session_file)].file})

\* the files in the order of their last record, the last recorded first
Touch(files, file) == <<file>> \o SelectSeq(files, LAMBDA f : f # file)

\* a run of main -f from PullRequester.__init__ to the _save_data that ends
\* parse_gitmodules, with `file` current and `index` to store
RecordRun(file, index) ==
    /\ recorded < MaxRecords
    /\ session_file' = SavedSection(LoadSession, file, index)
    /\ session_corrupt' = FALSE
    /\ recency' = Touch(recency, file)
    /\ recorded' = recorded + 1
    /\ UNCHANGED <<args, g_is_already_running, pc, cancel_operation, is_allowed,
                   raising, self, remote_calls, releases, writer, read_from, faults,
                   batcher, parsers>>

StoreInit ==
    /\ gitmodules_file = <<"A">>
    /\ maximum_repositories = 0
    /\ is_dry_run = FALSE
    /\ synced_repositories \in BOOLEAN
    /\ sections = [f \in Files |-> Len(SectionNames[f])]
    /\ session_corrupt = FALSE
    /\ \E n \in 0..MAXIMUM_WORSPACES_ENTRIES :
          /\ session_file = SessionAfter(n)
          /\ recency = [k \in 1..n |-> n + 1 - k]
    /\ recorded = 0
    /\ NotStarted
    /\ BatcherUnused
    /\ ParsersUnused

StoreNext == \E file \in FilesToRecord, index \in 0..1 : RecordRun(file, index)

SpecStore == StoreInit /\ [][StoreNext]_vars

\* -------------------------------------------------- the repository batcher

\* The account's repositories are numbered in the order of the listing; a
\* repository's number is its name and its id.  Every account.archived-th one
\* is archived, none when that is 0.
ArchivedEvery == {0, 1, 3}
isArchived(r) == account.archived # 0 /\ r % account.archived = 0

\* what the remote answers to ListUserRepositories( first: items, after: cursor )
Nodes(cursor) ==
    LET left == account.size - cursor
        count == IF left < items THEN left ELSE items
    IN  [k \in 1..count |-> [name |-> cursor + k, id |-> cursor + k, isArchived |-> isArchived(cursor + k)]]
PageInfo(cursor) ==
    LET nodes == Nodes(cursor)
    IN  [endCursor |-> IF nodes = <<>> THEN NoCursor ELSE nodes[Len(nodes)].id,
         hasNextPage |-> cursor + Len(nodes) < account.size]

\* the responses of requests.post: a status code and the keys of its JSON
Responses == [status : {200, 502}, keys : SUBSET {"data", "errors"}]

\* run_graphql_query raising on the status code alone
run_graphql_query_raises_status(response) == response.status # 200

\* run_graphql_query raises an Exception
run_graphql_query_raises(response) ==
    IF response.status = 200
    THEN "data" \notin response.keys \/ "errors" \in response.keys
    ELSE TRUE

RECURSIVE Digits(_)
\* str( n ) for n >= 0, a digit a token
Digits(n) == IF n < 10 THEN <<n>> ELSE Digits(n \div 10) \o <<n % 10>>

RECURSIVE ZeroPad(_, _)
\* %0<width>d of digits
ZeroPad(digits, width) ==
    IF Len(digits) >= width THEN digits ELSE ZeroPad(<<0>> \o digits, width)

\* an alias that does not depend on the index
update_alias_first(index) == [prefix |-> "update", digits |-> ZeroPad(Digits(1), 5)]

\* "update%05d" % index
update_alias(index) == [prefix |-> "update", digits |-> ZeroPad(Digits(index), 5)]

\* the mutations _enable_github_issue_tracker joins in one query
Mutations(found) ==
    [index \in 1..Len(found) |-> [alias |-> update_alias(index), id |-> found[index].id]]

\* the loop left after its first page
NoNextPage_first(variables) == TRUE

\* if not queryvariables['hasNextPage']: break
NoNextPage(variables) == ~variables.hasNextPage

\* main --enable-issues, --add-stars or --watch-all: run_action_on_all_repositories
\* up to its loop
StartBatcher ==
    /\ batch_pc = "idle"
    /\ queryvariables' = [lastItem |-> NoCursor, hasNextPage |-> FALSE]
    /\ batch_pc' = "list"
    /\ UNCHANGED <<account, repositories, requests, executor, store, parsers>>

\* get_all_user_repositories: one query, answered by `response`
ListRepositories(response) ==
    /\ batch_pc = "list"
    /\ LET cursor == queryvariables.lastItem
           found == SelectSeq(Nodes(cursor), LAMBDA node : ~node.isArchived)
           raises == run_graphql_query_raises(response)
       IN  /\ requests' = Append(requests,
                               [kind |-> "query", after |-> cursor, response |-> response,
                                body |-> <<>>, found |-> IF raises THEN <<>> ELSE found])
           /\ IF raises
              THEN /\ batch_pc' = "raised"
                   /\ UNCHANGED <<queryvariables, repositories>>
              ELSE /\ queryvariables' = [lastItem |-> PageInfo(cursor).endCursor,
                                         hasNextPage |-> PageInfo(cursor).hasNextPage]
                   /\ repositories' = found
                   /\ batch_pc' = "mutate"
    /\ UNCHANGED <<account, executor, store, parsers>>

\* _enable_github_issue_tracker: one mutation query, answered by `response`;
\* then the end of the loop body
UpdateRepositories(response) ==
    /\ batch_pc = "mutate"
    /\ requests' = Append(requests,
                          [kind |-> "mutation", after |-> NoCursor, response |-> response,
                           body |-> Mutations(repositories), found |-> <<>>])
    /\ batch_pc' = IF run_graphql_query_raises(response) THEN "raised"
                   ELSE IF NoNextPage(queryvariables) THEN "done"
                   ELSE "list"
    /\ UNCHANGED <<account, queryvariables, repositories, executor, store, parsers>>

BatcherInit ==
    /\ gitmodules_file = <<"A">>
    /\ maximum_repositories = 0
    /\ is_dry_run = FALSE
    /\ synced_repositories = FALSE
    /\ sections = [f \in Files |-> Len(SectionNames[f])]
    /\ session_file = <<>>
    /\ session_corrupt = FALSE
    /\ NotStarted
    /\ StoreUnused
    /\ ParsersUnused
    /\ account \in [size : 0..MaxRepositories, archived : ArchivedEvery]
    /\ batch_pc = "idle"
    /\ queryvariables = [lastItem |-> NoCursor, hasNextPage |-> FALSE]
    /\ repositories = <<>>
    /\ requests = <<>>

\* the batcher runs before the PullRequester is built
BatcherNext ==
    \/ StartBatcher
    \/ \E response \in Responses : ListRepositories(response)
    \/ \E response \in Responses : UpdateRepositories(response)

SpecBatcher == BatcherInit /\ [][BatcherNext]_vars

\* ------------------------------------------- the parsers of the options

\* the tokens the options are written with
BranchTokens == {"master", "develop", "->", ","}
UrlTokens == {"https://", "github.com", "/", "acme", "widgets", ".git"}

\* the strings of at most `length` tokens
Texts(tokens, length) == UNION {[1..n -> tokens] : n \in 0..length}

\* the largest of a set of places
Last(places) == CHOOSE p \in places : \A q \in places : q <= p

\* parser_branches returning the groups in the order of the text
parser_branches_in_order(branches) ==
    LET n == Len(branches)
        arrows == {p \in 2..n : branches[p] = "->" /\ \E c \in (p + 2)..n : branches[c] = ","}
    IN  IF arrows = {} THEN << <<>>, <<>> >>
        ELSE LET p == Last(arrows)
                 c == Last({c \in (p + 2)..n : branches[c] = ","})
             IN  <<SubSeq(branches, 1, p - 1), SubSeq(branches, p + 1, c - 1)>>

\* parser_branches: re.search( r'(.+)\-\>(.+),' ) matches from the start of the
\* text, group 1 up to the last "->" that leaves a group 2 and a comma, group
\* 2 up to the last comma; it returns group 2, group 1
parser_branches(branches) ==
    LET n == Len(branches)
        arrows == {p \in 2..n : branches[p] = "->" /\ \E c \in (p + 2)..n : branches[c] = ","}
    IN  IF arrows = {} THEN << <<>>, <<>> >>
        ELSE LET p == Last(arrows)
                 c == Last({c \in (p + 2)..n : branches[c] = ","})
             IN  <<SubSeq(branches, p + 1, c - 1), SubSeq(branches, 1, p - 1)>>

\* parse_github without `if repository.endswith('.git')`
parse_github_whole(url) ==
    LET n == Len(url)
        hosts == {k \in 1..(n - 1) :
                     /\ url[k] = "github.com" /\ url[k + 1] = "/"
                     /\ \E q \in (k + 3)..(n - 1) : url[q] = "/"}
    IN  IF hosts = {} THEN << <<>>, <<>> >>
        ELSE LET k == CHOOSE h \in hosts : \A g \in hosts : h <= g
                 q == Last({q \in (k + 3)..(n - 1) : url[q] = "/"})
             IN  <<SubSeq(url, k + 2, q - 1), SubSeq(url, q + 1, n)>>

\* parse_github: re.search( r'github\.com\/(.+)\/(.+)' ) matches at the first
\* "github.com/" that a group 1, a "/" and a group 2 follow, group 1 up to the
\* last "/" that leaves a group 2, group 2 to the end; a ".git" that ends
\* group 2 is cut off
parse_github(url) ==
    LET n == Len(url)
        hosts == {k \in 1..(n - 1) :
                     /\ url[k] = "github.com" /\ url[k + 1] = "/"
                     /\ \E q \in (k + 3)..(n - 1) : url[q] = "/"}
    IN  IF hosts = {} THEN << <<>>, <<>> >>
        ELSE LET k == CHOOSE h \in hosts : \A g \in hosts : h <= g
                 q == Last({q \in (k + 3)..(n - 1) : url[q] = "/"})
                 user == SubSeq(url, k + 2, q - 1)
                 repository == SubSeq(url, q + 1, n)
             IN  IF repository[Len(repository)] = ".git"
                 THEN <<user, SubSeq(repository, 1, Len(repository) - 1)>>
                 ELSE <<user, repository>>

\* local_branch, upstream_branch = parser_branches( branches )
ParseBranches ==
    /\ option.key = "branches"
    /\ parsed = <<>>
    /\ parsed' = parser_branches(option.value)
    /\ UNCHANGED <<option, executor, store, batcher>>

\* upstream_user, upstream_repository = parse_github( upstream )
ParseGithub ==
    /\ option.key = "upstream"
    /\ parsed = <<>>
    /\ parsed' = parse_github(option.value)
    /\ UNCHANGED <<option, executor, store, batcher>>

ParsersInit ==
    /\ gitmodules_file = <<"A">>
    /\ maximum_repositories = 0
    /\ is_dry_run = FALSE
    /\ synced_repositories = FALSE
    /\ sections = [f \in Files |-> Len(SectionNames[f])]
    /\ session_file = <<>>
    /\ session_corrupt = FALSE
    /\ NotStarted
    /\ StoreUnused
    /\ BatcherUnused
    /\ \/ \E n \in 0..MaxBranches : \E text \in [1..n -> BranchTokens] :
             option = [key |-> "branches", value |-> text]
       \/ \E n \in 0..MaxUrl : \E text \in [1..n -> UrlTokens] :
             option = [key |-> "upstream", value |-> text]
    /\ parsed = <<>>

ParsersNext == ParseBranches \/ ParseGithub

SpecParsers == ParsersInit /\ [][ParsersNext]_vars

\* ================================================================== claims

Ended == {"returned", "raised"}

\* the sections for which invocation i issued a remote call
Processed(i) == {c[1] : c \in remote_calls[i]}

RECURSIVE SkippedByCheckpoint(_, _)
\* the sections a loaded checkpoint d makes a run over the files skip
SkippedByCheckpoint(d, files) ==
    IF files = <<>> THEN 0
    ELSE (IF Get(d, Head(files), 0) < sections[Head(files)]
          THEN Get(d, Head(files), 0) ELSE sections[Head(files)])
         + SkippedByCheckpoint(d, Tail(files))

\* the entries of a report list that are about the repository `name`: the name
\* itself, or an error text that starts with it
EntriesFor(list, name) ==
    {e \in 1..Len(list) : SubSeq(list[e], 1, Len(name)) = name}

\* the number of report entries, over all categories, about section idx
Filed(i, idx) ==
    LET name == full_downstream_name(Worklist[idx].file, Worklist[idx].section)
        pairs == {<<c, e>> \in Categories \X (1..sections_count + 1) :
                      e \in EntriesFor(repositories_results[i][c], name)}
    IN  Cardinality(pairs)

\* C1: a run that loaded the checkpoint written when an earlier run of the same
\* worklist was interrupted after k sections issues no remote call for the
\* sections 1..k and, when it completes without a cap, has processed exactly
\* the sections k+1..n.
C1_ResumeIdempotence ==
    \A j \in Invocations :
        (~synced_repositories /\ read_from[j] >= 0)
            => /\ \A idx \in Processed(j) : idx > read_from[j]
               /\ (pc[j] = "save0" /\ maximum_repositories = 0)
                      => Processed(j) = (read_from[j] + 1)..sections_count

\* C1 on a worklist of one file only
C1_SingleFile == Len(gitmodules_file) = 1 => C1_ResumeIdempotence

\* C2: with a cap m, 0 < m < n, a run that terminates normally has processed
\* exactly m sections, or fewer when it resumed past n - m.
C2_CapLaw ==
    \A i \in Invocations :
        (/\ pc[i] = "save0"
         /\ 0 < maximum_repositories
         /\ maximum_repositories < sections_count)
            => LET k == SkippedByCheckpoint(lastSection[i], gitmodules_file)
                   processed == Cardinality(Processed(i))
               IN  \/ processed = maximum_repositories
                   \/ /\ k > sections_count - maximum_repositories
                      /\ processed < maximum_repositories

\* C2 for a run that starts from an empty checkpoint
C2_FreshRun ==
    \A i \in Invocations :
        (/\ pc[i] = "save0"
         /\ 0 < maximum_repositories
         /\ maximum_repositories < sections_count
         /\ lastSection[i] = <<>>)
            => Cardinality(Processed(i)) = maximum_repositories

\* C3: a section one of whose remote calls failed with a GithubException is
\* filed in exactly one category of the report.
C3_ExactlyOneCategory ==
    \A i \in Invocations : \A c \in remote_calls[i] :
        c[3] = "github" => Filed(i, c[1]) = 1

\* C4: no failure of a remote call is raised out of the loop: the loop is never
\* left by an exception at the section whose remote call failed.
C4_FailureIsolation ==
    \A i \in Invocations : \A c \in remote_calls[i] :
        (c[3] # "ok" /\ c[1] = request_index[i]) => pc[i] # "except"

\* C4 for the failures that are GithubExceptions
C4_GithubExceptionCaught ==
    \A i \in Invocations : \A c \in remote_calls[i] :
        (c[3] = "github" /\ c[1] = request_index[i]) => pc[i] # "except"

\* C5: with no cancel, at most one invocation is in the worklist loop.
C5_MutualExclusion ==
    (\A i \in Invocations : ~cancel_operation[i])
        => Cardinality({i \in Invocations : pc[i] = "loop"}) <= 1

\* C3 for the failures of get_repo and create_pull
C3_ResolveAndCreate ==
    \A i \in Invocations : \A c \in remote_calls[i] :
        (c[3] = "github" /\ c[2] # "add_to_labels") => Filed(i, c[1]) = 1

\* C6: the steps of an invocation that was declined leave the flag as the
\* holder set it: when the declined invocation returns, the lock is as before.
C6_LockExclusivity ==
    [][\A j \in Invocations :
          (pc[j] = "finally" /\ ~is_allowed[j] /\ pc'[j] = "returned")
              => g_is_already_running' = g_is_already_running]_vars

\* C7: when an invocation that acquired the lock returns or raises, and when a
\* cancel is done, in any state, is_allowed_to_run() would then return true.
C7_ReleasedOnEveryExit ==
    [][\A i \in Invocations :
          (pc[i] \notin Ended /\ pc'[i] \in Ended /\ (is_allowed'[i] \/ cancel_operation'[i]))
              => is_allowed_to_run']_vars

\* C7: an invocation has raised out of the with block, another has completed it
\* and a third has cancelled, and the lock is free
C7_Witness ==
    /\ \E i \in Invocations : pc[i] = "raised" /\ is_allowed[i]
    /\ \E i \in Invocations : pc[i] = "returned" /\ is_allowed[i]
    /\ \E i \in Invocations : pc[i] = "returned" /\ cancel_operation[i]
    /\ is_allowed_to_run

\* C8: an invocation of parse_gitmodules that has ended called free_mutex_lock
\* once if its acquire returned true, and not at all if it returned false.
C8_ReleaseExactlyOnce ==
    \A i \in Invocations :
        (pc[i] \in Ended /\ ~cancel_operation[i])
            => releases[i] = (IF is_allowed[i] THEN 1 ELSE 0)

\* C8 on the exit by an exception alone
C8_OnException ==
    \A i \in Invocations : pc[i] = "raised" => releases[i] = 1

\* C9: the index an interrupted run stored for its current file counts the
\* sections of that file only: interrupted at the j-th section of the file, j - 1.
C9_PerFileCursor ==
    \A i \in Invocations :
        (pc[i] = "finally" /\ raising[i] /\ last_module_file[i] \in Files)
            => Get(lastSection[i], last_module_file[i], -1) = IndexInFile(request_index[i]) - 1

\* C9 on a worklist of one file only
C9_SingleFile == Len(gitmodules_file) = 1 => C9_PerFileCursor

SavingStep(i) == pc[i] \in {"except", "save0"} /\ pc'[i] = "finally"

C11_RetryOnResume ==
    /\ \A i \in Invocations :
          (pc[i] = "finally" /\ raising[i] /\ last_module_file[i] \in Files)
              => Get(lastSection[i], last_module_file[i], -1) = request_index[i] - 1
    /\ \A j \in Invocations :
          (~synced_repositories /\ read_from[j] >= 0)
              => LET failing == read_from[j] + 1
                 IN  /\ \A idx \in Processed(j) : idx >= failing
                     /\ (/\ pc[j] \in {"loop", "save0"}
                         /\ request_index[j] >= failing
                         /\ maximum_repositories = 0)
                            => failing \in Processed(j)

\* C11 on a worklist of one file only
C11_SingleFile == Len(gitmodules_file) = 1 => C11_RetryOnResume

\* the step by which invocation i builds its PullRequester
Constructing(i) == pc[i] = "idle" /\ pc'[i] # "idle" /\ ~cancel_operation'[i]

\* C13: building the PullRequester never fails; with -s it starts from an empty
\* checkpoint whatever the session file holds, and its loop skips no section;
\* without -s it starts from the content of the session file, or from an empty
\* checkpoint when the file is there and cannot be parsed.
C13_CheckpointLoad ==
    [][\A j \in Invocations :
          /\ Constructing(j)
                => /\ pc'[j] = "acquire"
                   /\ lastSection'[j] = (IF synced_repositories \/ session_corrupt
                                         THEN <<>> ELSE session_file)
          /\ (synced_repositories /\ pc'[j] = "loop")
                => Processed(j)' = 1..request_index'[j]]_vars

\* C13: a run with -s has called the remote API for the first section of A
\* while the session file, well formed, says that a section of A is done
C13_Witness ==
    \E j \in Invocations :
        /\ synced_repositories
        /\ ~session_corrupt
        /\ Get(session_file, "A", 0) > 0
        /\ pc[j] = "loop"
        /\ 1 \in Processed(j)

\* the sections of the worklist that carry no upstream URL
WithoutUpstream ==
    {idx \in 1..sections_count : ~HasUpstream(Worklist[idx].file, Worklist[idx].section)}

\* section idx is in the list of the repositories skipped for their upstream
ListedAsSkipped(i, idx) ==
    \E e \in 1..Len(skipped_repositories[i]) :
        skipped_repositories[i][e] =
            full_downstream_name(Worklist[idx].file, Worklist[idx].section)

\* C14: a section without upstream that the loop has dealt with, no call for
\* it having raised anything but a GithubException, is in the list of the
\* repositories skipped for their upstream; create_pull is never called for it.
C14_MissingUpstream ==
    \A i \in Invocations : \A idx \in WithoutUpstream :
        /\ \A c \in remote_calls[i] : c[1] = idx => c[2] = "get_repo"
        /\ (idx \in Processed(i) /\ \A c \in remote_calls[i] : c[1] = idx => c[3] # "other")
              => ListedAsSkipped(i, idx)

\* C14 for the sections whose fork get_repo found
C14_Resolved ==
    \A i \in Invocations : \A idx \in WithoutUpstream :
        /\ \A c \in remote_calls[i] : c[1] = idx => c[2] = "get_repo"
        /\ <<idx, "get_repo", "ok", <<>>>> \in remote_calls[i]
              => /\ ListedAsSkipped(i, idx)
                 /\ Filed(i, idx) = 0
                 /\ (request_index[i] = idx => pc[i] # "except")

\* the sections of the worklist that carry an upstream URL
WithUpstream == (1..sections_count) \ WithoutUpstream

\* the entries of Successfully Created that are about section idx
CreatedEntries(i, idx) ==
    EntriesFor(repositories_results[i][SuccessfullyCreated],
               full_downstream_name(Worklist[idx].file, Worklist[idx].section))

\* C15: with --dry-run the only remote call of a run is get_repo; a section
\* with an upstream whose fork get_repo found has one entry in Successfully
\* Created and none elsewhere; a run over the whole worklist, every fork
\* found, ends with one entry for each section that has an upstream.
C15_DryRun ==
    is_dry_run =>
        \A i \in Invocations :
            /\ \A c \in remote_calls[i] : c[2] = "get_repo"
            /\ \A idx \in WithUpstream :
                  <<idx, "get_repo", "ok", <<>>>> \in remote_calls[i]
                      => /\ Cardinality(CreatedEntries(i, idx)) = 1
                         /\ Filed(i, idx) = 1
            /\ (/\ pc[i] = "save0"
                /\ lastSection[i] = <<>>
                /\ maximum_repositories = 0
                /\ \A c \in remote_calls[i] : c[3] = "ok")
                  => Len(repositories_results[i][SuccessfullyCreated])
                        = Cardinality(WithUpstream)

\* C15: a dry run over A and B has ended its loop with two entries in
\* Successfully Created
C15_Witness ==
    /\ is_dry_run
    /\ \E i \in Invocations :
          /\ pc[i] = "save0"
          /\ Len(repositories_results[i][SuccessfullyCreated]) = 2

\* the category the first reason found in a text stands for; Unknown Reason
\* when the text holds none of them
FirstMatch(text) ==
    LET found == {r \in 1..Len(skip_reasons) : Contains(skip_reasons[r], text)}
    IN  IF found = {} THEN UnknownReason
        ELSE skip_reasons[CHOOSE r \in found : \A q \in found : r <= q][1]

\* the categories that hold an entry about section idx
FiledUnder(i, idx) ==
    {c \in Categories :
        EntriesFor(repositories_results[i][c],
                   full_downstream_name(Worklist[idx].file, Worklist[idx].section)) # {}}

\* C16: a section whose get_repo or create_pull raised a GithubException is
\* filed under the category of the first reason its message holds, and under
\* Unknown Reason when the message holds none: the message alone decides.
C16_MessageAlone ==
    \A i \in Invocations : \A c \in remote_calls[i] :
        (c[3] = "github" /\ c[2] # "add_to_labels")
            => FiledUnder(i, c[1]) = {FirstMatch(c[4])}

\* C16 with the text register_error_reason scans, the name and the message
C16_NameAndMessage ==
    \A i \in Invocations : \A c \in remote_calls[i] :
        (c[3] = "github" /\ c[2] # "add_to_labels")
            => FiledUnder(i, c[1]) =
                 {FirstMatch(ErrorText(full_downstream_name(Worklist[c[1]].file,
                                                            Worklist[c[1]].section),
                                       c[4]))}

\* the text _register_error_reason builds for a call that raised
CallText(c) ==
    ErrorText(full_downstream_name(Worklist[c[1]].file, Worklist[c[1]].section), c[4])

\* a text is an entry of Unknown Reason, whole
KeptAsUnknown(i, text) ==
    \E e \in 1..Len(repositories_results[i][UnknownReason]) :
        repositories_results[i][UnknownReason][e] = text

KeyOrder(d) == [k \in 1..Len(d) |-> d[k].file]

\* C12: after a record the session file holds at most
\* MAXIMUM_WORSPACES_ENTRIES entries, one for a file; the file recorded last
\* is its first entry; its keys are in the order of their last record; the
\* files that were recorded and are not in it were recorded longer ago than
\* all that are; without -s none is left out below the cap.
C12_BoundedRecency ==
    recorded > 0 =>
        /\ Len(session_file) <= MAXIMUM_WORSPACES_ENTRIES
        /\ Cardinality(Keys(session_file)) = Len(session_file)
        /\ session_file[1].file = recency[1]
        /\ KeyOrder(session_file) = SubSeq(recency, 1, Len(session_file))
        /\ ~synced_repositories
              => Len(session_file) =
                    (IF Len(recency) < MAXIMUM_WORSPACES_ENTRIES
                     THEN Len(recency) ELSE MAXIMUM_WORSPACES_ENTRIES)

\* C12: the session file was full, a run on a new file has recorded and then a
\* run on a file in the middle of it: that file is first, the new file second,
\* and the file recorded longest ago is gone
C12_Witness ==
    /\ recorded = 2
    /\ Len(recency) = MAXIMUM_WORSPACES_ENTRIES + 1
    /\ Len(session_file) = MAXIMUM_WORSPACES_ENTRIES
    /\ session_file[1] = [file |-> 51, index |-> 1]
    /\ session_file[2].file = MAXIMUM_WORSPACES_ENTRIES + 1
    /\ 1 \notin Keys(session_file)

\* the pages the remote delivers the listing in: the last one alone without a
\* next page, and one empty page for an account without repositories
PagesOfListing ==
    IF account.size = 0 THEN 1 ELSE (account.size + items - 1) \div items

\* the requests of a kind posted so far, as places in the log
RequestsOf(kind) == {k \in 1..Len(requests) : requests[k].kind = kind}

\* the times repository r was returned by get_all_user_repositories
TimesCollected(r) ==
    Cardinality({<<k, m>> \in RequestsOf("query") \X (1..items) :
                    m <= Len(requests[k].found) /\ requests[k].found[m].id = r})

\* C18: the batcher never posts more page queries than the listing has pages,
\* and never two with the same cursor; when its loop has ended it has posted
\* one for each page, the last answer said there is no next page, and every
\* repository of the listing that is not archived was collected once, the
\* archived ones never; once ended it posts nothing.
C18_Pagination ==
    [][/\ Cardinality(RequestsOf("query"))' <= PagesOfListing'
       /\ \A k, m \in RequestsOf("query")' :
             k # m => requests'[k].after # requests'[m].after
       /\ batch_pc' = "done"
             => /\ Cardinality(RequestsOf("query"))' = PagesOfListing'
                /\ ~queryvariables'.hasNextPage
                /\ \A r \in 1..account.size :
                      TimesCollected(r)' = (IF isArchived(r) THEN 0 ELSE 1)
       /\ batch_pc = "done" => requests' = requests]_vars

\* C18: a listing of 237 repositories, none archived, came in pages of 100,
\* 100 and 37: the loop has ended after 3 page queries, the third of them
\* returning the 37 repositories after the cursor 200
C18_Witness ==
    /\ account = [size |-> 237, archived |-> 0]
    /\ batch_pc = "done"
    /\ Cardinality(RequestsOf("query")) = 3
    /\ Len(requests) = 6
    /\ requests[5].after = 200
    /\ Len(requests[1].found) + Len(requests[3].found) + Len(requests[5].found) = 237
    /\ Len(requests[5].found) = 37

RECURSIVE DigitsValue(_)
\* int( digits )
DigitsValue(digits) ==
    IF digits = <<>> THEN 0
    ELSE 10 * DigitsValue(SubSeq(digits, 1, Len(digits) - 1)) + digits[Len(digits)]

\* the repositories of the page after a cursor that are not archived, in the
\* order of the listing
NotArchivedAfter(cursor) ==
    {r \in (cursor + 1)..(cursor + items) : r <= account.size /\ ~isArchived(r)}

\* C19: every page query that was answered is followed by one mutation request
\* before the next page query; the request holds one mutation for each
\* repository of that page that is not archived, in the order of the page, and
\* none for another; its aliases are "update" and five digits that read 1, 2,
\* 3, ..., so no two of them are the same.
C19_OneMutationPerPage ==
    /\ \A k \in RequestsOf("query") :
          ~run_graphql_query_raises(requests[k].response)
              => /\ k = Len(requests) => batch_pc = "mutate"
                 /\ k < Len(requests) => requests[k + 1].kind = "mutation"
    /\ \A k \in RequestsOf("mutation") :
          LET body == requests[k].body
          IN  /\ k > 1 /\ requests[k - 1].kind = "query"
              /\ {body[m].id : m \in 1..Len(body)} = NotArchivedAfter(requests[k - 1].after)
              /\ Len(body) = Cardinality(NotArchivedAfter(requests[k - 1].after))
              /\ \A m \in 1..Len(body) :
                    /\ body[m].alias.prefix = "update"
                    /\ Len(body[m].alias.digits) = 5
                    /\ DigitsValue(body[m].alias.digits) = m
                    /\ m > 1 => body[m - 1].id < body[m].id
              /\ \A m, n \in 1..Len(body) : m # n => body[m].alias # body[n].alias

\* C19: every third repository is archived; the mutation request for the second
\* page was posted, with 67 mutations, the first for repository 101 under the
\* alias update00001 and the last for repository 200 under update00067
C19_Witness ==
    /\ account.archived = 3
    /\ Len(requests) = 4
    /\ requests[4].kind = "mutation"
    /\ Len(requests[4].body) = 67
    /\ requests[4].body[1] = [alias |-> [prefix |-> "update", digits |-> <<0, 0, 0, 0, 1>>],
                              id |-> 101]
    /\ requests[4].body[67] = [alias |-> [prefix |-> "update", digits |-> <<0, 0, 0, 6, 7>>],
                               id |-> 200]

\* a response with a status other than 200, or with an error payload
FailedResponse(response) == response.status # 200 \/ "errors" \in response.keys

\* C20: a request, page query or mutation, that was answered with a status
\* other than 200 or with an error payload is the last request the batcher
\* posted, and the batcher has been left by the exception.
C20_FailureIsFatal ==
    \A k \in 1..Len(requests) :
        FailedResponse(requests[k].response)
            => /\ k = Len(requests)
               /\ batch_pc = "raised"

\* C20: the page query of the second page was answered 200 with data and
\* errors, after two requests that succeeded, and the batcher was left
C20_Witness ==
    /\ batch_pc = "raised"
    /\ Len(requests) = 3
    /\ requests[3].kind = "query"
    /\ requests[3].after = items
    /\ requests[3].response = [status |-> 200, keys |-> {"data", "errors"}]

\* C20: the mutation request of the first page was answered 502
C20_MutationRefused ==
    /\ batch_pc = "raised"
    /\ Len(requests) = 2
    /\ requests[2].kind = "mutation"
    /\ requests[2].response.status = 502

\* C21: a file of the list that cannot be opened or parsed ends the run before
\* its loop: the exception is raised with no section looked at and no remote
\* call made, the except clause leaves the session file as it is, and the
\* invocation ends by the exception.
C21_NoPartialWorklist ==
    [][\A i \in Invocations :
          /\ (pc[i] = "acquire" /\ pc'[i] = "except")
                => /\ last_module_file'[i] = None
                   /\ request_index'[i] = 0
                   /\ remote_calls'[i] = {}
          /\ (pc[i] = "except" /\ last_module_file[i] = None /\ pc'[i] # "except")
                => /\ pc'[i] = "finally"
                   /\ raising'[i]
                   /\ remote_calls'[i] = {}
                   /\ session_file' = session_file
                   /\ session_corrupt' = session_corrupt
          /\ (pc[i] = "finally" /\ raising[i] /\ pc'[i] # "finally")
                => pc'[i] = "raised"]_vars

\* C21: a run over A and B could not load one of them and is leaving by the
\* exception, and the session file an earlier run wrote is there
C21_Witness ==
    \E i \in Invocations :
        /\ Len(gitmodules_file) = 2
        /\ pc[i] = "finally"
        /\ raising[i]
        /\ is_allowed[i]
        /\ last_module_file[i] = None
        /\ session_file # <<>>
        /\ ~session_corrupt

\* the branch names tried: one or two tokens, neither an arrow nor a comma
BranchNames == Texts({"master", "develop"}, 2) \ {<<>>}

\* the text holds an arrow after something, and a comma after something after it
BranchesMatch(text) ==
    \E p \in 2..Len(text) : \E c \in (p + 2)..Len(text) :
        text[p] = "->" /\ text[c] = ","

Names == {<<"acme">>, <<"widgets">>}

\* what may stand before the host
Schemes == {<<>>, <<"https://">>}

\* C23: a URL "github.com/<owner>/<repo>", with or without a scheme before it
\* and with or without ".git" at its end, parses to <owner> and <repo>, the
\* same pair both ways; a URL without "github.com/" parses to two empty
\* strings.
C23_UrlParsing ==
    (option.key = "upstream" /\ parsed # <<>>)
        => /\ \A scheme \in Schemes : \A owner, repo \in Names :
                 LET url == scheme \o <<"github.com", "/">> \o owner \o <<"/">> \o repo
                 IN  /\ option.value \in {url, url \o <<".git">>} => parsed = <<owner, repo>>
                     /\ parse_github(url) = parse_github(url \o <<".git">>)
           /\ ~Contains(<<"github.com", "/">>, option.value) => parsed = << <<>>, <<>> >>

\* C23: https://github.com/acme/widgets.git was parsed, to acme and widgets
C23_Witness ==
    /\ option = [key |-> "upstream",
                 value |-> <<"https://", "github.com", "/", "acme", "/", "widgets", ".git">>]
    /\ parsed = << <<"acme">>, <<"widgets">> >>

\* invocation i goes through the head of a loop iteration
Iterating(i) == pc[i] = "loop" /\ request_index'[i] = request_index[i] + 1

\* C24: an iteration that starts while the flag is clear raises at once: no
\* remote call is made for its section, nor later; the except clause then
\* stores request_index - 1 for the current file as the first entry of the
\* session file, and the invocation ends by the exception with the flag clear.
C24_CancellationPolling ==
    [][\A i \in Invocations :
          /\ (Iterating(i) /\ ~g_is_already_running)
                => /\ pc'[i] = "except"
                   /\ remote_calls'[i] = remote_calls[i]
                   /\ last_module_file'[i] \in Files
          /\ (pc[i] \in {"except", "finally"} /\ raising'[i])
                => remote_calls'[i] \subseteq remote_calls[i]
          /\ (pc[i] = "except" /\ last_module_file[i] \in Files /\ pc'[i] # "except")
                => /\ pc'[i] = "finally"
                   /\ raising'[i]
                   /\ session_file'[1] = [file |-> last_module_file[i],
                                          index |-> request_index[i] - 1]
                   /\ ~session_corrupt'
          /\ (pc[i] = "finally" /\ raising[i] /\ pc'[i] # "finally")
                => /\ pc'[i] = "raised"
                   /\ ~g_is_already_running'
                   /\ releases'[i] = releases[i] + 1]_vars

\* C24: the flag was cleared after the first section of a run; its second
\* iteration has raised, with no remote call but those of the first section
C24_Witness ==
    \E i \in Invocations :
        /\ pc[i] = "except"
        /\ ~g_is_already_running
        /\ request_index[i] = 2
        /\ Processed(i) = {1}

\* C25: when a run over several files, with no cap, has ended its loop and
\* saves, the session file then holds 0 or nothing for every file of the list.
C25_CompletedRunClearsAll ==
    [][\A i \in Invocations :
          (/\ pc[i] = "save0" /\ pc'[i] = "finally"
           /\ Len(gitmodules_file) > 1
           /\ maximum_repositories = 0)
              => \A k \in 1..Len(gitmodules_file) :
                    Get(session_file', gitmodules_file[k], 0) = 0]_vars

\* C25 for the file that is current when the loop ends, the last of the list
C25_LastFileCleared ==
    [][\A i \in Invocations :
          (pc[i] = "save0" /\ pc'[i] = "finally" /\ maximum_repositories = 0)
              => Get(session_file', gitmodules_file[Len(gitmodules_file)], 0) = 0]_vars

\* C26: when an exception leaves the loop of a run that loaded a checkpoint
\* c > 0 for the file that is current, the index the run stores for that file
\* is at least c.
C26_CursorNeverBackwards ==
    [][\A i \in Invocations :
          (/\ pc[i] = "except" /\ pc'[i] = "finally"
           /\ last_module_file[i] \in Files
           /\ Get(lastSection[i], last_module_file[i], 0) > 0)
              => Get(session_file', last_module_file[i], 0)
                    >= Get(lastSection[i], last_module_file[i], 0)]_vars

\* C26 for the runs whose exception came after the sections skipped
C26_AfterTheSkip ==
    [][\A i \in Invocations :
          (/\ pc[i] = "except" /\ pc'[i] = "finally"
           /\ last_module_file[i] \in Files
           /\ Len(gitmodules_file) = 1
           /\ Processed(i) # {})
              => Get(session_file', last_module_file[i], 0)
                    >= Get(lastSection[i], last_module_file[i], 0)]_vars

=============================================================================
